---- MODULE Spec2Model ----
(***************************************************************************)
(* Model of the audio backend: the HTTP views health and send_audio        *)
(* (core/apiManager/views.py, routed by core/apiManager/urls.py) and the   *)
(* vendor client wrapper (core/utils/geminiClient.py).                     *)
(*                                                                         *)
(* Python values: a str is a sequence of fragments (so that an f-string is *)
(* the concatenation of its pieces and "mentions" is membership of a      *)
(* fragment); bytes are sequences of small integers; an optional bytes     *)
(* value is a record [none, data].                                         *)
(***************************************************************************)
EXTENDS Integers, Sequences, FiniteSets, TLC

VARIABLES gemini_model, env, built, first_handle, exchange,
          pc, api_key, client, result

vars == <<gemini_model, env, built, first_handle, exchange,
          pc, api_key, client, result>>

shared == <<gemini_model, env, built, first_handle>>
threadVars == <<pc, api_key, client, result>>

(* ------------------------------ bounds -------------------------------- *)

\* number of request threads that may call get_gemini_model concurrently
NReq == 2
\* events of one live session: its messages, their parts, a failed receive
MaxSession == 3

(* --------------------------- Python values ---------------------------- *)

None == <<"<None>">>

Truthy(s) == s # None /\ s # <<>>

\* an f-string placeholder: None is printed as the word None
Fmt(s) == IF s = None THEN <<"None">> ELSE s

NoBytes == [none |-> TRUE, data |-> <<>>]

Bytes(d) == [none |-> FALSE, data |-> d]

\* mutant: the check of the returned audio is left out
TruthyBytesAlways(b) == TRUE

TruthyBytes(b) == ~b.none /\ b.data # <<>>

SeqUpTo(S, n) == UNION {[1..k -> S] : k \in 0..n}

\* mutant: the chunks are joined last first
RECURSIVE JoinReversed(_)
JoinReversed(chunks) ==
    IF chunks = <<>> THEN <<>> ELSE JoinReversed(Tail(chunks)) \o Head(chunks)

RECURSIVE Join(_)
Join(chunks) ==
    IF chunks = <<>> THEN <<>> ELSE Head(chunks) \o Join(Tail(chunks))

(* --------------------------- the environment -------------------------- *)

Unset == [set |-> FALSE, value |-> <<>>]

\* GEMINI_API_KEY: absent, or set to an empty value, a blank one, a key, a
\* key after a blank
KeyValues == {<<>>, <<" ">>, <<"k">>, <<" ", "k">>}

EnvValues == {Unset} \cup {[set |-> TRUE, value |-> s] : s \in KeyValues}

RECURSIVE LStrip(_)
LStrip(s) ==
    IF s = <<>> THEN s
    ELSE IF Head(s) = " " THEN LStrip(Tail(s)) ELSE s

RECURSIVE RStrip(_)
RStrip(s) ==
    IF s = <<>> THEN s
    ELSE IF s[Len(s)] = " " THEN RStrip(SubSeq(s, 1, Len(s) - 1)) ELSE s

Strip(s) == RStrip(LStrip(s))

\* mutant: a blank key passes for a key
KeyMissingNoStrip(e) == ~e.set \/ e.value = <<>>

\* not api_key or api_key.strip() == ""
KeyMissing(e) == ~e.set \/ e.value = <<>> \/ Strip(e.value) = <<>>

(* ------------------------- get_gemini_model --------------------------- *)

NoClient == 0

KEY_ERR ==
    <<"GEMINI_API_KEY environment variable not set or empty. Please set it in your .env file.">>

CONFIG_ERR == <<"Error during Gemini model configuration: ", "client constructor failed">>

CtorOutcomes == {"ok", "raise"}

\* One whole call: h is _gemini_model, e the environment, ctor what
\* genai.Client does, n the number of clients constructed so far.
GetGeminiModel(h, e, ctor, n) ==
    IF h # NoClient
    THEN [model |-> h, err |-> None, handle |-> h, built |-> n]
    ELSE IF KeyMissing(e)
    THEN [model |-> NoClient, err |-> KEY_ERR, handle |-> h, built |-> n]
    ELSE IF ctor = "raise"
    THEN [model |-> NoClient, err |-> CONFIG_ERR, handle |-> h, built |-> n]
    ELSE [model |-> n + 1, err |-> None, handle |-> n + 1, built |-> n + 1]

(* --------------------------- the live session ------------------------- *)

AudioData == {<<>>, <<1>>, <<2>>}

Part ==
    {[has_audio |-> FALSE, audio_data |-> <<>>]}
        \cup {[has_audio |-> TRUE, audio_data |-> d] : d \in AudioData}

MsgText == {None, <<"hi">>}

\* the messages with at most k parts
MsgsUpTo(k) ==
    {[text |-> t, server_content |-> FALSE, parts |-> <<>>] : t \in MsgText}
        \cup {[text |-> t, server_content |-> TRUE, parts |-> ps] :
                t \in MsgText, ps \in SeqUpTo(Part, k)}

Weight(m) == 1 + Len(m.parts)

RECURSIVE Sessions(_)
Sessions(w) ==
    IF w <= 0 THEN {<<>>}
    ELSE {<<>>} \cup UNION {{<<m>> \o s : s \in Sessions(w - Weight(m))} :
                              m \in MsgsUpTo(w - 1)}

Outcomes == {"ok", "raise"}

NoLive ==
    [connect |-> "ok", pcm |-> "ok", send |-> "ok", msgs |-> <<>>, receive |-> "ok"]

LiveBehaviours ==
    {[NoLive EXCEPT !.connect = "raise"]}
        \cup {[NoLive EXCEPT !.pcm = c, !.send = "raise"] : c \in Outcomes}
        \cup {[NoLive EXCEPT !.pcm = c, !.msgs = m] :
                c \in Outcomes, m \in Sessions(MaxSession)}
        \cup {[NoLive EXCEPT !.pcm = c, !.msgs = m, !.receive = "raise"] :
                c \in Outcomes, m \in Sessions(MaxSession - 1)}

\* mutant: only the first part of a message is looked at
CollectFirst(parts) ==
    IF parts = <<>> THEN <<>>
    ELSE IF Head(parts).has_audio /\ Head(parts).audio_data # <<>>
    THEN <<Head(parts).audio_data>> ELSE <<>>

\* for part in parts: if hasattr(part, 'audio_data') and part.audio_data
RECURSIVE Collect(_)
Collect(parts) ==
    IF parts = <<>> THEN <<>>
    ELSE LET part == Head(parts) IN
         (IF part.has_audio /\ part.audio_data # <<>>
          THEN <<part.audio_data>> ELSE <<>>) \o Collect(Tail(parts))

\* async for msg in session.receive()
RECURSIVE Receive(_, _, _)
Receive(msgs, text_resp, chunks) ==
    IF msgs = <<>> THEN [text |-> text_resp, chunks |-> chunks]
    ELSE LET msg == Head(msgs)
             t == IF Truthy(msg.text) THEN msg.text ELSE text_resp
             parts == IF msg.server_content THEN msg.parts ELSE <<>>
         IN Receive(Tail(msgs), t, chunks \o Collect(parts))

Raised(what) ==
    [raised |-> TRUE, exc |-> what, audio |-> NoBytes, text |-> None, blob |-> "none"]

\* the body of _live_unified: connect, convert, send, receive, join
LiveSession(live) ==
    IF live.connect = "raise" THEN Raised("connect failed")
    ELSE LET blob == IF live.pcm = "ok" THEN "audio/pcm;rate=16000" ELSE "audio/wav"
         IN IF live.send = "raise" THEN [Raised("send failed") EXCEPT !.blob = blob]
            ELSE IF live.receive = "raise"
            THEN [Raised("receive failed") EXCEPT !.blob = blob]
            ELSE LET r == Receive(live.msgs, None, <<>>)
                 IN [raised |-> FALSE, exc |-> "",
                     audio |-> IF r.chunks # <<>> THEN Bytes(Join(r.chunks)) ELSE NoBytes,
                     text |-> r.text, blob |-> blob]

\* mutant: a failed session is swallowed and passes for an empty one
LiveUnifiedSwallow(live) ==
    IF LiveSession(live).raised
    THEN [LiveSession(live) EXCEPT !.raised = FALSE, !.exc = ""]
    ELSE LiveSession(live)

\* asyncio.run(_live_unified(...)): an exception of the session propagates
LiveUnified(live) == LiveSession(live)

(* ------------------------- generate_transcript ------------------------ *)

\* the texts of the parts of the first candidate
CandParts == {<<>>, <<None>>, <<(<<"transcript">>)>>, <<None, <<"transcript">> >>}

NoGT ==
    [ctor |-> "ok", conv |-> "ok", upload |-> "ok", gen |-> "empty", parts |-> <<>>]

GTBehaviours ==
    {[NoGT EXCEPT !.conv = "raise"]}
        \cup {[NoGT EXCEPT !.upload = u, !.gen = g] : u \in Outcomes, g \in {"raise", "empty"}}
        \cup {[NoGT EXCEPT !.upload = u, !.gen = "candidates", !.parts = ps] :
                u \in Outcomes, ps \in CandParts}

\* for p in response.candidates[0].content.parts: if getattr(p, 'text', None): return p.text
RECURSIVE FirstText(_)
FirstText(parts) ==
    IF parts = <<>> THEN <<"Could not generate transcript.">>
    ELSE IF Truthy(Head(parts)) THEN Head(parts) ELSE FirstText(Tail(parts))

GenerateTranscript(h, e, n, gt) ==
    LET gm == GetGeminiModel(h, e, gt.ctor, n)
        base == [text |-> None, handle |-> gm.handle, built |-> gm.built,
                 generate_calls |-> 0, upload_calls |-> 0]
    IN IF gm.model = NoClient
       THEN [base EXCEPT !.text = <<"Error: Gemini model not initialized. ">>
                                      \o (IF Truthy(gm.err) THEN gm.err ELSE <<>>)]
       ELSE IF gt.conv = "raise"
       THEN [base EXCEPT !.text = <<"Error generating transcript: ", "decode failed">>]
       ELSE LET called == [base EXCEPT !.upload_calls = 1, !.generate_calls = 1]
            IN IF gt.gen = "raise"
               THEN [called EXCEPT !.text = <<"Error generating transcript: ", "generate failed">>]
               ELSE IF gt.gen = "empty"
               THEN [called EXCEPT !.text = <<"Could not generate transcript.">>]
               ELSE [called EXCEPT !.text = FirstText(gt.parts)]

(* --------------- process_audio_and_get_audio_response ----------------- *)

SaveOutcomes == {"ok", "raise_open", "raise_write"}

NoSave == [outcome |-> "ok", kept |-> 0]

\* what writing `data` to a new file can do: the whole of it, nothing (the
\* directory or the file cannot be created), or a proper prefix before the
\* write raises
SaveBehaviours(data) ==
    {[outcome |-> "ok", kept |-> Len(data)], [outcome |-> "raise_open", kept |-> 0]}
        \cup {[outcome |-> "raise_write", kept |-> k] : k \in 0..(Len(data) - 1)}

DefaultIO ==
    [up_save |-> "ok", ctor |-> "ok", conv |-> "ok", live |-> NoLive, gt |-> NoGT,
     resp_save |-> NoSave]

ProcessAudio(h, e, n, io) ==
    LET gm == GetGeminiModel(h, e, io.ctor, n)
        base == [audio |-> NoBytes, text |-> None, handle |-> gm.handle,
                 built |-> gm.built, model |-> gm.model, live_calls |-> 0,
                 generate_calls |-> 0, blob |-> "none"]
    IN IF gm.model = NoClient
       THEN [base EXCEPT !.text = <<"Error: Gemini model not initialized. ">> \o Fmt(gm.err)]
       ELSE IF io.conv = "raise"
       THEN [base EXCEPT !.text = <<"Error processing audio: ", "decode failed">>]
       ELSE LET r == LiveUnified(io.live)
                live == [base EXCEPT !.live_calls = 1, !.blob = r.blob]
            IN IF r.raised
               THEN [live EXCEPT !.text = <<"Error processing audio: ", r.exc>>]
               ELSE IF Truthy(r.text)
               THEN [live EXCEPT !.audio = r.audio, !.text = r.text]
               ELSE LET t == GenerateTranscript(gm.handle, e, gm.built, io.gt)
                    IN [live EXCEPT !.audio = r.audio, !.text = t.text,
                                    !.handle = t.handle, !.built = t.built,
                                    !.generate_calls = t.generate_calls]

(* ------------------------------ the views ----------------------------- *)

HTTP_200_OK == 200
HTTP_400_BAD_REQUEST == 400
HTTP_500_INTERNAL_SERVER_ERROR == 500

NoJson == [key |-> "", value |-> <<>>]

\* rest_framework Response(data, status=...)
Response(key, value, status) ==
    [status |-> status, content_type |-> "application/json",
     json |-> [key |-> key, value |-> value], content |-> <<>>]

\* django HttpResponse(content, content_type=...)
HttpResponse(content, content_type) ==
    [status |-> HTTP_200_OK, content_type |-> content_type, json |-> NoJson,
     content |-> content]

\* mutant: health reports whether the client handle is initialized
HealthViewNeedsClient ==
    IF gemini_model = NoClient
    THEN Response("status", <<"unavailable">>, HTTP_500_INTERNAL_SERVER_ERROR)
    ELSE Response("status", <<"ok">>, HTTP_200_OK)

HealthView == Response("status", <<"ok">>, HTTP_200_OK)

\* the multipart file fields of a request: none, one under another name, audio
Requests == [files : {{}, {"file"}, {"audio"}}]

NO_FILE_ERR ==
    <<"No audio file provided. Ensure the request is multipart/form-data and includes a field named \"audio\".">>

\* mutant: any uploaded file is taken for the audio
AudioFileAnyField(request) == request.files # {}

\* request.FILES.get('audio')
AudioFile(request) == "audio" \in request.files

\* mutant: a failed upload save reaches the outer except
UploadSavePropagating(up_save) ==
    [written |-> IF up_save = "ok" THEN <<"complete">>
                 ELSE IF up_save = "raise_write" THEN <<"partial">> ELSE <<>>,
     propagates |-> up_save # "ok"]

\* the inner try/except around the upload save: the files it leaves under
\* uploads/, and whether its exception leaves the block
UploadSave(up_save) ==
    [written |-> IF up_save = "ok" THEN <<"complete">>
                 ELSE IF up_save = "raise_write" THEN <<"partial">> ELSE <<>>,
     propagates |-> FALSE]

\* mutant: the response is written to two files
ResponsesWrittenTwice(data, save) ==
    IF save.outcome = "raise_open" THEN <<>>
    ELSE <<SubSeq(data, 1, save.kept), SubSeq(data, 1, save.kept)>>

\* the files the response save leaves under responses/
ResponsesWritten(data, save) ==
    IF save.outcome = "raise_open" THEN <<>> ELSE <<SubSeq(data, 1, save.kept)>>

SendAudioView(request, h, e, n, io) ==
    LET quiet == [handle |-> h, built |-> n, model |-> NoClient, uploads |-> <<>>,
                  responses |-> <<>>, live_calls |-> 0, generate_calls |-> 0,
                  blob |-> "none", text |-> None]
    IN IF ~AudioFile(request)
       THEN quiet @@
            [response |-> Response("error", NO_FILE_ERR, HTTP_400_BAD_REQUEST)]
       ELSE IF UploadSave(io.up_save).propagates
       THEN [quiet EXCEPT !.uploads = UploadSave(io.up_save).written] @@
            [response |-> Response("error", <<"upload save failed">>,
                                   HTTP_500_INTERNAL_SERVER_ERROR)]
       ELSE LET r == ProcessAudio(h, e, n, io)
                ran == [quiet EXCEPT !.handle = r.handle, !.built = r.built,
                                     !.model = r.model,
                                     !.uploads = UploadSave(io.up_save).written,
                                     !.live_calls = r.live_calls,
                                     !.generate_calls = r.generate_calls,
                                     !.blob = r.blob, !.text = r.text]
            IN IF ~TruthyBytes(r.audio)
               THEN ran @@
                    [response |->
                        Response("error",
                                 <<"Failed to get audio response from Gemini. Details: ">>
                                     \o Fmt(r.text),
                                 HTTP_500_INTERNAL_SERVER_ERROR)]
               ELSE [ran EXCEPT !.responses = ResponsesWritten(r.audio.data, io.resp_save)] @@
                    [response |-> HttpResponse(r.audio.data, "audio/mpeg")]

\* urls.py
Resolve(path) ==
    CASE path = "health/" -> "health"
      [] path = "send_audio/" -> "send_audio"
      [] OTHER -> "404"

(* ------------------- the server, one request at a time ---------------- *)

Threads == 1..NReq

NoExchange == [route |-> "none"]

NoResult == [model |-> NoClient, err |-> None]

\* The behaviours of the vendor and of the file system that the handler
\* meets on the path the request takes; a call the handler does not make has
\* the default behaviour.
CtorsFor(request, h, e) ==
    IF AudioFile(request) /\ h = NoClient /\ ~KeyMissing(e) THEN CtorOutcomes ELSE {"ok"}

HasModel(request, h, e, ctor) ==
    AudioFile(request) /\ GetGeminiModel(h, e, ctor, 0).model # NoClient

LivesFor(called) == IF called THEN LiveBehaviours ELSE {NoLive}

TranscriptsFor(called, l) ==
    IF called /\ ~LiveSession(l).raised /\ ~Truthy(LiveSession(l).text)
    THEN GTBehaviours ELSE {NoGT}

SavesFor(called, l) ==
    IF called /\ TruthyBytes(LiveSession(l).audio)
    THEN SaveBehaviours(LiveSession(l).audio.data) ELSE {NoSave}

Init ==
    /\ gemini_model = NoClient
    /\ env \in EnvValues
    /\ built = 0
    /\ first_handle = NoClient
    /\ exchange = NoExchange
    /\ pc = [p \in Threads |-> "idle"]
    /\ api_key = [p \in Threads |-> Unset]
    /\ client = [p \in Threads |-> NoClient]
    /\ result = [p \in Threads |-> NoResult]

\* the process environment changes between requests; os.getenv reads it anew
\* on every call that finds no cached client
SetEnv ==
    /\ exchange = NoExchange
    /\ \E e \in EnvValues : e # env /\ env' = e
    /\ UNCHANGED <<gemini_model, built, first_handle, exchange, threadVars>>

Pre == [handle |-> gemini_model, env |-> env, built |-> built]

\* GET health/
Health ==
    /\ exchange = NoExchange
    /\ Resolve("health/") = "health"
    /\ exchange' = [route |-> "health", pre |-> Pre, out |-> [response |-> HealthView]]
    /\ UNCHANGED <<shared, threadVars>>

\* POST send_audio/: the whole handler, from the request to its response
SendAudio ==
    /\ exchange = NoExchange
    /\ Resolve("send_audio/") = "send_audio"
    /\ \E request \in Requests :
         \E up \in IF AudioFile(request) THEN SaveOutcomes ELSE {"ok"} :
         \E ctor \in CtorsFor(request, gemini_model, env) :
         \E conv \in IF HasModel(request, gemini_model, env, ctor) THEN Outcomes ELSE {"ok"} :
         \E l \in LivesFor(HasModel(request, gemini_model, env, ctor) /\ conv = "ok") :
         \E g \in TranscriptsFor(HasModel(request, gemini_model, env, ctor) /\ conv = "ok", l) :
         \E rs \in SavesFor(HasModel(request, gemini_model, env, ctor) /\ conv = "ok", l) :
            LET io == [up_save |-> up, ctor |-> ctor, conv |-> conv, live |-> l,
                       gt |-> g, resp_save |-> rs]
                out == SendAudioView(request, gemini_model, env, built, io)
            IN /\ exchange' = [route |-> "send_audio", request |-> request, io |-> io,
                               pre |-> Pre, out |-> out]
               /\ gemini_model' = out.handle
               /\ built' = out.built
               /\ first_handle' = IF first_handle = NoClient THEN out.handle
                                  ELSE first_handle
    /\ UNCHANGED <<env, threadVars>>

\* the response leaves the server
Deliver ==
    /\ exchange # NoExchange
    /\ exchange' = NoExchange
    /\ UNCHANGED <<shared, threadVars>>

Next == SetEnv \/ Health \/ SendAudio \/ Deliver

Spec == Init /\ [][Next]_vars

(* ------------- get_gemini_model called by concurrent requests --------- *)

\* a request thread reaches the call of get_gemini_model
Call(p) ==
    /\ pc[p] = "idle"
    /\ pc' = [pc EXCEPT ![p] = "line20"]
    /\ UNCHANGED <<shared, exchange, api_key, client, result>>

\* if _gemini_model is not None: return _gemini_model, None
Check(p) ==
    /\ pc[p] = "line20"
    /\ IF gemini_model # NoClient
       THEN /\ result' = [result EXCEPT ![p] = [model |-> gemini_model, err |-> None]]
            /\ pc' = [pc EXCEPT ![p] = "return"]
       ELSE /\ pc' = [pc EXCEPT ![p] = "line23"]
            /\ UNCHANGED result
    /\ UNCHANGED <<shared, exchange, api_key, client>>

\* api_key = os.getenv(...); if not api_key or api_key.strip() == "": return None, error_msg
ReadEnv(p) ==
    /\ pc[p] = "line23"
    /\ api_key' = [api_key EXCEPT ![p] = env]
    /\ IF KeyMissing(env)
       THEN /\ result' = [result EXCEPT ![p] = [model |-> NoClient, err |-> KEY_ERR]]
            /\ pc' = [pc EXCEPT ![p] = "return"]
       ELSE /\ pc' = [pc EXCEPT ![p] = "line32"]
            /\ UNCHANGED result
    /\ UNCHANGED <<shared, exchange, client>>

\* client = genai.Client(api_key=api_key), or the except branch
Construct(p) ==
    /\ pc[p] = "line32"
    /\ \E ctor \in CtorOutcomes :
         IF ctor = "raise"
         THEN /\ result' = [result EXCEPT ![p] = [model |-> NoClient, err |-> CONFIG_ERR]]
              /\ pc' = [pc EXCEPT ![p] = "return"]
              /\ UNCHANGED <<built, client>>
         ELSE /\ built' = built + 1
              /\ client' = [client EXCEPT ![p] = built + 1]
              /\ pc' = [pc EXCEPT ![p] = "line33"]
              /\ UNCHANGED result
    /\ UNCHANGED <<gemini_model, env, first_handle, exchange, api_key>>

\* _gemini_model = client
Assign(p) ==
    /\ pc[p] = "line33"
    /\ gemini_model' = client[p]
    /\ first_handle' = IF first_handle = NoClient THEN client[p] ELSE first_handle
    /\ pc' = [pc EXCEPT ![p] = "line34"]
    /\ UNCHANGED <<env, built, exchange, api_key, client, result>>

\* return _gemini_model, None
ReturnHandle(p) ==
    /\ pc[p] = "line34"
    /\ result' = [result EXCEPT ![p] = [model |-> gemini_model, err |-> None]]
    /\ pc' = [pc EXCEPT ![p] = "return"]
    /\ UNCHANGED <<shared, exchange, api_key, client>>

\* the caller takes the result; the thread is free for the next call
Return(p) ==
    /\ pc[p] = "return"
    /\ pc' = [pc EXCEPT ![p] = "idle"]
    /\ api_key' = [api_key EXCEPT ![p] = Unset]
    /\ client' = [client EXCEPT ![p] = NoClient]
    /\ result' = [result EXCEPT ![p] = NoResult]
    /\ UNCHANGED <<shared, exchange>>

NextConc ==
    \/ SetEnv
    \/ \E p \in Threads :
         \/ Call(p)
         \/ Check(p)
         \/ ReadEnv(p)
         \/ Construct(p)
         \/ Assign(p)
         \/ ReturnHandle(p)
         \/ Return(p)

SpecConc == Init /\ [][NextConc]_vars

(* ------------------------------ properties ---------------------------- *)

IsSend == exchange.route = "send_audio"

Resp == exchange.out.response

HasAudioField == "audio" \in exchange.request.files

\* the key is absent, empty or made of blanks only
Blank(e) == ~e.set \/ \A i \in 1..Len(e.value) : e.value[i] = " "

Mentions(msg, fragment) == \E i \in 1..Len(msg) : msg[i] = fragment

IsJsonError ==
    /\ Resp.content_type = "application/json"
    /\ Resp.json.key = "error"
    /\ Resp.json.value # <<>>
    /\ Resp.content = <<>>

LiveOk(l) == l.connect = "ok" /\ l.send = "ok" /\ l.receive = "ok"

\* the audio_data of every part the session delivered, in the order delivered
RECURSIVE PartsAudio(_)
PartsAudio(parts) ==
    IF parts = <<>> THEN <<>>
    ELSE (IF Head(parts).has_audio THEN Head(parts).audio_data ELSE <<>>)
             \o PartsAudio(Tail(parts))

RECURSIVE AllAudio(_)
AllAudio(msgs) ==
    IF msgs = <<>> THEN <<>>
    ELSE (IF Head(msgs).server_content THEN PartsAudio(Head(msgs).parts) ELSE <<>>)
             \o AllAudio(Tail(msgs))

NoTextDelivered(msgs) == \A i \in 1..Len(msgs) : msgs[i].text \in {None, <<>>}

\* a client is at hand: cached, or the key is usable and the constructor works
ClientAvailable ==
    \/ exchange.pre.handle # NoClient
    \/ ~Blank(exchange.pre.env) /\ exchange.io.ctor = "ok"

LiveFailed == exchange.out.live_calls = 1 /\ ~LiveOk(exchange.io.live)

\* C1: a POST send_audio/ without a file field named audio is answered 400
\* with a JSON body holding an error key, whatever the client handle and the
\* API key are.
C1_MissingAudioIs400 ==
    (IsSend /\ ~HasAudioField) =>
        (Resp.status = 400 /\ IsJsonError)

C1_Witness ==
    /\ IsSend /\ exchange.request.files = {"file"}
    /\ exchange.pre.handle # NoClient /\ ~exchange.pre.env.set
    /\ Resp.status = 400

\* C2: with a valid upload, a client at hand and a live session that delivers
\* audio, the answer is 200, audio/mpeg, and the body is exactly that audio.
C2_VendorAudioReturned ==
    (/\ IsSend /\ HasAudioField /\ ClientAvailable
     /\ exchange.io.conv = "ok" /\ LiveOk(exchange.io.live)
     /\ AllAudio(exchange.io.live.msgs) # <<>>) =>
        (/\ Resp.status = 200
         /\ Resp.content_type = "audio/mpeg"
         /\ Resp.content = AllAudio(exchange.io.live.msgs))

C2_Witness ==
    /\ IsSend /\ HasAudioField /\ exchange.io.conv = "ok"
    /\ LiveOk(exchange.io.live)
    /\ Len(exchange.io.live.msgs) = 1
    /\ AllAudio(exchange.io.live.msgs) = <<1, 2>>
    /\ Resp.status = 200 /\ Resp.content = <<1, 2>>

NOT_INITIALIZED == "Error: Gemini model not initialized. "

\* C3 as stated: every send_audio request with an audio file made while the
\* key is unset or blank is answered 500 with a message that mentions that the
\* model was not initialized, also after earlier requests were served.
C3_Original ==
    (IsSend /\ HasAudioField /\ Blank(exchange.pre.env)) =>
        (Resp.status = 500 /\ IsJsonError /\ Mentions(Resp.json.value, NOT_INITIALIZED))

\* C3 amended: the same, for the requests that find no cached client handle.
C3_UnsetKeyNoHandleIs500 ==
    (IsSend /\ HasAudioField /\ Blank(exchange.pre.env)
        /\ exchange.pre.handle = NoClient) =>
        (Resp.status = 500 /\ IsJsonError /\ Mentions(Resp.json.value, NOT_INITIALIZED))

C3_Witness ==
    /\ IsSend /\ HasAudioField
    /\ exchange.pre.env = [set |-> TRUE, value |-> <<" ">>]
    /\ exchange.pre.handle = NoClient
    /\ Resp.status = 500

\* C4 as stated: when the live session call fails, the non-streaming call is
\* attempted once before the error is returned.
C4_Original ==
    (IsSend /\ LiveFailed) => exchange.out.generate_calls = 1

\* C4 amended: when the live session call fails, no non-streaming call is made
\* and the answer is 500 with the processing error; the non-streaming call is
\* made at most once per request, and only after a live session that ended
\* without failure and without text.
C4_FallbackOnlyWithoutText ==
    IsSend =>
        /\ LiveFailed =>
              /\ exchange.out.generate_calls = 0
              /\ Resp.status = 500
              /\ Mentions(Resp.json.value, "Error processing audio: ")
        /\ exchange.out.generate_calls <= 1
        /\ exchange.out.generate_calls = 1 =>
              /\ exchange.out.live_calls = 1
              /\ LiveOk(exchange.io.live)
              /\ NoTextDelivered(exchange.io.live.msgs)

C4_Witness ==
    /\ IsSend /\ LiveFailed /\ exchange.io.live.send = "raise"
    /\ exchange.out.generate_calls = 0 /\ Resp.status = 500

\* C5: over any interleaving of concurrent calls of get_gemini_model the
\* vendor client is constructed at most once, and once the handle holds a
\* client its value never changes.
C5_ConfiguredOnce ==
    /\ built <= 1
    /\ first_handle # NoClient => gemini_model = first_handle

\* C6: every send_audio request ends with one response, which is 200 with
\* audio bytes, 400 with a JSON error or 500 with a JSON error, whatever the
\* vendor calls and the audio conversions do.
C6_ResponseShapes ==
    IsSend =>
        \/ /\ Resp.status = 200
           /\ Resp.content_type = "audio/mpeg"
           /\ Resp.content # <<>>
           /\ Resp.json = NoJson
        \/ Resp.status = 400 /\ IsJsonError
        \/ Resp.status = 500 /\ IsJsonError

C6_Witness ==
    /\ IsSend /\ exchange.out.live_calls = 1
    /\ exchange.io.live.receive = "raise" /\ exchange.io.live.pcm = "raise"
    /\ AllAudio(exchange.io.live.msgs) # <<>>
    /\ Resp.status = 500

\* C7: GET health/ answers 200 with {"status": "ok"} in every state: key set
\* or not, handle initialized or not, after any send_audio requests.
C7_HealthAlwaysOk ==
    exchange.route = "health" =>
        Resp = [status |-> 200, content_type |-> "application/json",
                json |-> [key |-> "status", value |-> <<"ok">>], content |-> <<>>]

C7_Witness ==
    /\ exchange.route = "health"
    /\ exchange.pre.handle # NoClient /\ Blank(exchange.pre.env)
    /\ Resp.status = 200

IsPrefix(a, b) == Len(a) <= Len(b) /\ a = SubSeq(b, 1, Len(a))

\* C8 as stated: a file under responses/ is written only by a request
\* answered 200, at most one per request, and its content equals the bytes
\* returned; a request answered 400 or 500 writes none.
C8_Original ==
    IsSend =>
        /\ Len(exchange.out.responses) <= 1
        /\ exchange.out.responses # <<>> =>
              (Resp.status = 200 /\ exchange.out.responses[1] = Resp.content)
        /\ Resp.status \in {400, 500} => exchange.out.responses = <<>>

\* C8 amended: the file's content is a prefix of the bytes returned, and equals
\* them when the save succeeds.
C8_ResponseFilePrefix ==
    IsSend =>
        /\ Len(exchange.out.responses) <= 1
        /\ exchange.out.responses # <<>> =>
              /\ Resp.status = 200
              /\ IsPrefix(exchange.out.responses[1], Resp.content)
              /\ exchange.io.resp_save.outcome = "ok" =>
                    exchange.out.responses[1] = Resp.content
        /\ Resp.status \in {400, 500} => exchange.out.responses = <<>>

C8_Witness ==
    /\ IsSend /\ Resp.status = 200
    /\ exchange.io.resp_save.outcome = "raise_write"
    /\ Len(exchange.out.responses) = 1
    /\ exchange.out.responses[1] # Resp.content

\* C9: the answer is 200 only if the live session delivered a non-empty audio
\* chunk, and then the body is the chunks joined in the order delivered; a
\* session that ends without an audio chunk is answered 500, text or
\* transcript or not.
C9_AudioChunksDecide ==
    IsSend =>
        /\ Resp.status = 200 =>
              /\ exchange.out.live_calls = 1
              /\ LiveOk(exchange.io.live)
              /\ AllAudio(exchange.io.live.msgs) # <<>>
              /\ Resp.content = AllAudio(exchange.io.live.msgs)
        /\ (exchange.out.live_calls = 1 /\ AllAudio(exchange.io.live.msgs) = <<>>) =>
              Resp.status = 500

C9_Witness ==
    /\ IsSend /\ exchange.out.live_calls = 1 /\ LiveOk(exchange.io.live)
    /\ AllAudio(exchange.io.live.msgs) = <<>>
    /\ exchange.io.gt.gen = "candidates"
    /\ exchange.out.text = <<"transcript">>
    /\ Resp.status = 500

\* the response of the same request under the same vendor behaviour, with the
\* two saves behaving as given
ResponseWithSaves(up, rs) ==
    SendAudioView(exchange.request, exchange.pre.handle, exchange.pre.env,
                  exchange.pre.built,
                  [exchange.io EXCEPT !.up_save = up, !.resp_save = rs]).response

\* C10: the response (status, content type, body) is the same whatever the two
\* saves do, and the vendor is still called after a failed upload save.
C10_SavesDoNotChangeResponse ==
    IsSend =>
        /\ \A up \in SaveOutcomes :
             \A rs \in SaveBehaviours(Resp.content) :
                ResponseWithSaves(up, rs) = Resp
        /\ (/\ HasAudioField /\ exchange.io.up_save # "ok"
            /\ ClientAvailable /\ exchange.io.conv = "ok") =>
              exchange.out.live_calls = 1

C10_Witness ==
    /\ IsSend /\ Resp.status = 200
    /\ exchange.io.up_save = "raise_open"
    /\ exchange.io.resp_save.outcome = "raise_open"
    /\ exchange.out.uploads = <<>> /\ exchange.out.responses = <<>>
    /\ exchange.out.live_calls = 1

====
